---- MODULE Spec2Model ----
(***************************************************************************)
(* A model of trend.py (lanawwas/wikitrend): the Wikipedia top-articles    *)
(* fetcher with its exclusion filter, the Al Jazeera coverage probe loop    *)
(* of main with its browser session, and the JSON / CSV emitters.           *)
(*                                                                         *)
(* Strings are sequences of one-character strings, so that Python's         *)
(* substring test (`in`) and str.replace are computed, not assumed.         *)
(* Python dicts are functions whose DOMAIN is the set of keys present.      *)
(***************************************************************************)
EXTENDS Integers, Sequences, FiniteSets, TLC

VARIABLES
    EXCLUSION_PATTERNS,   \* the module-level list object (trend.py:17)
    pc,                   \* position of the running call
    runs,                 \* number of main calls started in this process
    top_n,                \* argument top_n of the running call
    exclusions,           \* main's local `exclusions` / the fetcher's exclusion_patterns
    exclusions_is_global, \* TRUE when `exclusions` is the very list object EXCLUSION_PATTERNS
    response,             \* what the Wikimedia API answered (fetcher specification)
    result,               \* outcome of a direct get_top_wikipedia_arabic_topics call
    trending_topics,      \* main's local list of topic dicts
    raised,               \* the exception that left main, or NoException
    driver,               \* the browser session: "none", "open" or "closed"
    acquired,             \* how many times webdriver.Firefox(...) succeeded in this run
    released,             \* how many times driver.quit() ran in this run
    idx,                  \* 1-based position of the probe loop in trending_topics
    lastOutcome,          \* what the latest probe of a topic met
    files,                \* the file system: filename -> content
    lastCall              \* the latest direct emitter call (emitter specification)

vars == <<EXCLUSION_PATTERNS, pc, runs, top_n, exclusions, exclusions_is_global,
          response, result, trending_topics, raised, driver, acquired, released,
          idx, lastOutcome, files, lastCall>>

-----------------------------------------------------------------------------
(* Bounds *)

\* longest article list in an API response
MaxArticles == 3
\* largest requested count (top_n ranges over -1 .. MaxTopN)
MaxTopN == 3
\* main calls in one process
MaxRuns == 2
\* longest record list handed directly to an emitter
MaxEmit == 2

-----------------------------------------------------------------------------
(* Strings *)

\* "needle in haystack" of Python, on sequences of characters
Contains(needle, haystack) ==
    \E s \in 0..(Len(haystack) - Len(needle)) :
        SubSeq(haystack, s + 1, s + Len(needle)) = needle

\* str.replace('_', ' ')
ReplaceUnderscores(s) == [k \in 1..Len(s) |-> IF s[k] = "_" THEN " " ELSE s[k]]

\* whitespace for str.strip()
IsSpace(c) == c \in {" ", "\n"}

RECURSIVE LStrip(_)
LStrip(s) == IF s # <<>> /\ IsSpace(Head(s)) THEN LStrip(Tail(s)) ELSE s

RECURSIVE RStrip(_)
RStrip(s) ==
    IF s # <<>> /\ IsSpace(s[Len(s)]) THEN RStrip(SubSeq(s, 1, Len(s) - 1)) ELSE s

\* str.strip()
Strip(s) == RStrip(LStrip(s))

\* a slice that keeps one element too many
PySliceToInclusive(seq, n) ==
    SubSeq(seq, 1, IF n + 1 < Len(seq) THEN n + 1 ELSE Len(seq))

\* seq[:n] of Python, n negative included
PySliceTo(seq, n) ==
    IF n >= 0
    THEN SubSeq(seq, 1, IF n < Len(seq) THEN n ELSE Len(seq))
    ELSE SubSeq(seq, 1, IF Len(seq) + n > 0 THEN Len(seq) + n ELSE 0)

-----------------------------------------------------------------------------
(* Exclusion patterns *)

\* the two default patterns, the home page and the search page, each Arabic
\* word written as one letter: "m_p" and "s:b"
DefaultPatterns == << <<"m", "_", "p">>, <<"s", ":", "b">> >>

\* a filter that compares with == where the code tests `in`
ShouldExcludeExactTitle(article_title, exclusion_patterns) ==
    \E k \in 1..Len(exclusion_patterns) : exclusion_patterns[k] = article_title

ShouldExcludeArticle(article_title, exclusion_patterns) ==
    \E k \in 1..Len(exclusion_patterns) :
        Contains(exclusion_patterns[k], article_title)

\* load_exclusions_from_file's comprehension: the stripped lines that are not
\* blank and do not start with '#'
RECURSIVE ParseExclusionLines(_)
ParseExclusionLines(lines) ==
    IF lines = <<>> THEN <<>>
    ELSE LET line == Head(lines)
             keep == Strip(line) # <<>> /\ ~(line # <<>> /\ Head(line) = "#")
         IN  (IF keep THEN <<Strip(line)>> ELSE <<>>) \o ParseExclusionLines(Tail(lines))

-----------------------------------------------------------------------------
(* The Wikimedia API response *)

NoException == "none"

\* the raw (underscore form) titles the API may list
RawTitles == { <<"m", "_", "p">>, <<"a", "_", "b">>, <<"c", "_", "d">> }

\* views of the article of rank r: the API sorts by descending views
ViewsAt(r) == 1000 - 100 * r

\* the item of rank r, as the API sends it
ApiItem(r, title) ==
    [rank |-> r, article |-> [str |-> TRUE, chars |-> title], views |-> ViewsAt(r)]

ApiArticles(titles) == [r \in 1..Len(titles) |-> ApiItem(r, titles[r])]

\* a dict without key k
WithoutKey(d, k) == [x \in (DOMAIN d) \ {k} |-> d[x]]

ItemDefects == {"noArticle", "articleNotStr", "noRank", "noViews"}

\* the item with one field missing or of the wrong type
Damaged(item, defect) ==
    CASE defect = "noArticle"     -> WithoutKey(item, "article")
      [] defect = "articleNotStr" -> [item EXCEPT !.article = [str |-> FALSE, chars |-> <<>>]]
      [] defect = "noRank"        -> WithoutKey(item, "rank")
      [] defect = "noViews"       -> WithoutKey(item, "views")

TitleLists == UNION {[1..n -> RawTitles] : n \in 0..MaxArticles}

\* responses that carry no usable article list
ShapelessKinds == {"RequestException", "NotObject", "ItemsMissing", "ItemsNull",
                   "ItemsEmpty", "FirstNotObject", "ArticlesMissing", "ArticlesNull"}

WellFormedResponses == {[kind |-> "Articles", articles |-> ApiArticles(ts)] : ts \in TitleLists}

DamagedResponses ==
    UNION { {[kind |-> "Articles",
              articles |-> [ApiArticles(ts) EXCEPT ![at] = Damaged(@, defect)]]
               : at \in 1..Len(ts), defect \in ItemDefects} : ts \in TitleLists }

Responses ==
    {[kind |-> k, articles |-> <<>>] : k \in ShapelessKinds}
        \cup WellFormedResponses \cup DamagedResponses

-----------------------------------------------------------------------------
(* get_top_wikipedia_arabic_topics *)

Returned(value) == [exc |-> NoException, value |-> value]
Raises(exc) == [exc |-> exc, value |-> <<>>]

\* the list comprehension of lines 75-78, with the first exception it meets
RECURSIVE FilterArticles(_, _)
FilterArticles(items, exclusion_patterns) ==
    IF items = <<>> THEN Returned(<<>>)
    ELSE LET item == Head(items) IN
         IF "article" \notin DOMAIN item THEN Raises("KeyError")
         ELSE IF exclusion_patterns # <<>> /\ ~item.article.str THEN Raises("TypeError")
         ELSE LET rest == FilterArticles(Tail(items), exclusion_patterns) IN
              IF rest.exc # NoException THEN rest
              ELSE IF ShouldExcludeArticle(item.article.chars, exclusion_patterns)
                   THEN rest
                   ELSE Returned(<<item>> \o rest.value)

\* the dict built at lines 82-86
TopicRecord(item) ==
    [rank |-> item.rank, article |-> ReplaceUnderscores(item.article.chars),
     views |-> item.views]

\* the loop of lines 80-86, with the first exception it meets
RECURSIVE MapTopics(_)
MapTopics(items) ==
    IF items = <<>> THEN Returned(<<>>)
    ELSE LET item == Head(items) IN
         IF "rank" \notin DOMAIN item THEN Raises("KeyError")
         ELSE IF ~item.article.str THEN Raises("AttributeError")
         ELSE IF "views" \notin DOMAIN item THEN Raises("KeyError")
         ELSE LET rest == MapTopics(Tail(items)) IN
              IF rest.exc # NoException THEN rest
              ELSE Returned(<<TopicRecord(item)>> \o rest.value)

\* the try body, lines 60-89
FetchBody(resp, n, exclusion_patterns) ==
    CASE resp.kind = "RequestException" -> Raises("RequestException")
      [] resp.kind = "NotObject"        -> Raises("AttributeError")
      [] resp.kind = "ItemsMissing"     -> Raises("IndexError")
      [] resp.kind = "ItemsEmpty"       -> Raises("IndexError")
      [] resp.kind = "ItemsNull"        -> Raises("TypeError")
      [] resp.kind = "FirstNotObject"   -> Raises("AttributeError")
      [] resp.kind = "ArticlesMissing"  -> Returned(<<>>)
      [] resp.kind = "ArticlesNull"     -> Raises("TypeError")
      [] resp.kind = "Articles"         ->
            LET articles == FilterArticles(resp.articles, exclusion_patterns) IN
            IF articles.exc # NoException THEN articles
            ELSE MapTopics(PySliceTo(articles.value, n))

\* the except clauses of lines 91-96
CaughtByFetcher == {"RequestException", "IndexError", "KeyError"}

GetTopWikipediaArabicTopics(resp, n, exclusion_patterns) ==
    LET body == FetchBody(resp, n, exclusion_patterns) IN
    IF body.exc \in CaughtByFetcher THEN Returned(<<>>) ELSE body

-----------------------------------------------------------------------------
(* search_aljazeera_with_selenium *)

\* what driver.get / WebDriverWait / find_elements can meet for one topic;
\* "OtherException" is any exception outside the WebDriverException
\* hierarchy (urllib3's MaxRetryError when the connection to geckodriver is
\* lost, KeyboardInterrupt, ...), which no except clause of the function names
ProbeOutcomes == {"NoResultsMarker", "MarkerGone", "TimeoutException",
                  "WebDriverException", "OtherException"}

SearchAljazeeraWithSelenium(outcome) ==
    CASE outcome = "NoResultsMarker"    -> Returned(FALSE)
      [] outcome = "MarkerGone"         -> Returned(TRUE)
      [] outcome = "TimeoutException"   -> Returned(TRUE)
      [] outcome = "WebDriverException" -> Returned(FALSE)
      [] outcome = "OtherException"     -> [exc |-> "Exception", value |-> FALSE]

\* the two Arabic strings of line 229, transliterated
CoverageYes == "naam"
CoverageNo == "la"

\* a label written in English where the code writes the Arabic strings
CoverageLabelEnglish(coverage_found) == IF coverage_found THEN "yes" ELSE "no"

CoverageLabel(coverage_found) == IF coverage_found THEN CoverageYes ELSE CoverageNo

\* topic['aljazeera_coverage'] = label
SetCoverage(topic, label) == ("aljazeera_coverage" :> label) @@ topic

-----------------------------------------------------------------------------
(* save_to_json, export_to_csv *)

JsonFilename == "trending.json"
CsvFilename == "trending.csv"
Filenames == {JsonFilename, CsvFilename}

NoFile == [exists |-> FALSE, format |-> "", header |-> <<>>, rows |-> <<>>]
NoFiles == [f \in Filenames |-> NoFile]

\* dict.keys(), in insertion order
KeyOrder == <<"rank", "article", "views", "aljazeera_coverage">>
Keys(d) == SelectSeq(KeyOrder, LAMBDA k : k \in DOMAIN d)

SaveToJson(fs, data, filename) ==
    [fs EXCEPT ![filename] =
        [exists |-> TRUE, format |-> "json", header |-> <<>>, rows |-> data]]

ExportToCsv(fs, data, filename) ==
    IF data = <<>> THEN fs
    ELSE [fs EXCEPT ![filename] =
            [exists |-> TRUE, format |-> "csv", header |-> Keys(data[1]), rows |-> data]]

-----------------------------------------------------------------------------
(* main's choice of exclusions *)

\* exclusion_file: "" stands for None (both are falsy at line 199)
ExclusionFileArgs == {"", "excl.txt", "missing.txt"}

\* the one exclusion file that exists, as its lines
ExclusionFileLines ==
    << <<"#", " ", "x", "\n">>, <<"\n">>, <<" ", "c", " ", "\n">> >>

FileExists(filepath) == filepath = "excl.txt"

\* custom_exclusions: <<>> stands for None (both are falsy at line 205)
CustomExclusionArgs == { <<>>, << <<"a", " ", "b">> >> }

\* the list returned and whether it is the module-level list object itself
LoadExclusionsFromFile(filepath, global) ==
    IF FileExists(filepath)
    THEN [list |-> ParseExclusionLines(ExclusionFileLines), is_global |-> FALSE]
    ELSE [list |-> global, is_global |-> TRUE]

\* lines 199-202
ChooseExclusions(exclusion_file, global) ==
    IF exclusion_file # ""
    THEN LoadExclusionsFromFile(exclusion_file, global)
    ELSE [list |-> global, is_global |-> FALSE]

\* lines 205-206: list.extend, in place
ExtendExclusions(list, custom_exclusions) ==
    IF custom_exclusions # <<>> THEN list \o custom_exclusions ELSE list

\* lines 53-54
EffectivePatterns(arg_is_none, arg, global) == IF arg_is_none THEN global ELSE arg

\* the counts a direct caller may pass (argparse's type=int admits negatives)
TopNs == (-1)..MaxTopN

\* the counts main is run with
MainTopNs == 0..MaxTopN

-----------------------------------------------------------------------------
(* main, one action per step *)

NoResponse == [kind |-> "unset", articles |-> <<>>]
NoResult == [exc |-> "unset", value |-> <<>>]
NoCall == [fn |-> "none", data |-> <<>>, filename |-> "", before |-> NoFiles]
Ended == {"done", "exit_empty", "exit_browser", "raised"}

Init ==
    /\ EXCLUSION_PATTERNS = DefaultPatterns
    /\ pc = "idle"
    /\ runs = 0
    /\ top_n = 0
    /\ exclusions = <<>>
    /\ exclusions_is_global = FALSE
    /\ response = NoResponse
    /\ result = NoResult
    /\ trending_topics = <<>>
    /\ raised = NoException
    /\ driver = "none"
    /\ acquired = 0
    /\ released = 0
    /\ idx = 0
    /\ lastOutcome = "none"
    /\ files = NoFiles
    /\ lastCall = NoCall

\* main is entered (each call with a date of its own, so with no output file
\* of that date yet) and settles its exclusions, lines 198-207
MainStart(n, exclusion_file, custom_exclusions) ==
    /\ pc = "idle"
    /\ runs < MaxRuns
    /\ LET chosen == ChooseExclusions(exclusion_file, EXCLUSION_PATTERNS)
           extended == ExtendExclusions(chosen.list, custom_exclusions)
       IN  /\ exclusions' = extended
           /\ exclusions_is_global' = chosen.is_global
           /\ EXCLUSION_PATTERNS' =
                 IF chosen.is_global THEN extended ELSE EXCLUSION_PATTERNS
    /\ runs' = runs + 1
    /\ top_n' = n
    /\ pc' = "fetch"
    /\ trending_topics' = <<>>
    /\ raised' = NoException
    /\ driver' = "none"
    /\ acquired' = 0
    /\ released' = 0
    /\ idx' = 0
    /\ lastOutcome' = "none"
    /\ files' = NoFiles
    /\ UNCHANGED <<response, result, lastCall>>

\* lines 209-213
Fetch(resp) ==
    /\ pc = "fetch"
    /\ LET r == GetTopWikipediaArabicTopics(resp, top_n, exclusions) IN
       IF r.exc # NoException
       THEN /\ raised' = r.exc
            /\ pc' = "raised"
            /\ UNCHANGED trending_topics
       ELSE /\ trending_topics' = r.value
            /\ pc' = IF r.value = <<>> THEN "exit_empty" ELSE "browser"
            /\ UNCHANGED raised
    /\ UNCHANGED <<EXCLUSION_PATTERNS, runs, top_n, exclusions, exclusions_is_global,
                   response, result, driver, acquired, released, idx, lastOutcome,
                   files, lastCall>>

\* lines 220-224
StartBrowser(started) ==
    /\ pc = "browser"
    /\ IF started
       THEN /\ driver' = "open"
            /\ acquired' = acquired + 1
            /\ idx' = 1
            /\ pc' = "probe"
       ELSE /\ pc' = "exit_browser"
            /\ UNCHANGED <<driver, acquired, idx>>
    /\ UNCHANGED <<EXCLUSION_PATTERNS, runs, top_n, exclusions, exclusions_is_global,
                   response, result, trending_topics, raised, released, lastOutcome,
                   files, lastCall>>

\* one iteration of the loop of lines 227-229
Probe(outcome) ==
    /\ pc = "probe"
    /\ idx <= Len(trending_topics)
    /\ lastOutcome' = outcome
    /\ LET found == SearchAljazeeraWithSelenium(outcome) IN
       IF found.exc # NoException
       THEN /\ raised' = found.exc
            /\ pc' = "raised"
            /\ UNCHANGED <<trending_topics, idx>>
       ELSE /\ trending_topics' =
                 [trending_topics EXCEPT ![idx] = SetCoverage(@, CoverageLabel(found.value))]
            /\ idx' = idx + 1
            /\ UNCHANGED <<raised, pc>>
    /\ UNCHANGED <<EXCLUSION_PATTERNS, runs, top_n, exclusions, exclusions_is_global,
                   response, result, driver, acquired, released, files, lastCall>>

\* line 232, once the loop is over
Quit ==
    /\ pc = "probe"
    /\ idx > Len(trending_topics)
    /\ driver' = "closed"
    /\ released' = released + 1
    /\ pc' = "save"
    /\ UNCHANGED <<EXCLUSION_PATTERNS, runs, top_n, exclusions, exclusions_is_global,
                   response, result, trending_topics, raised, acquired, idx,
                   lastOutcome, files, lastCall>>

\* line 238
SaveJson ==
    /\ pc = "save"
    /\ files' = SaveToJson(files, trending_topics, JsonFilename)
    /\ pc' = "csv"
    /\ UNCHANGED <<EXCLUSION_PATTERNS, runs, top_n, exclusions, exclusions_is_global,
                   response, result, trending_topics, raised, driver, acquired,
                   released, idx, lastOutcome, lastCall>>

\* lines 239-243
ExportCsv ==
    /\ pc = "csv"
    /\ files' = ExportToCsv(files, trending_topics, CsvFilename)
    /\ pc' = "done"
    /\ UNCHANGED <<EXCLUSION_PATTERNS, runs, top_n, exclusions, exclusions_is_global,
                   response, result, trending_topics, raised, driver, acquired,
                   released, idx, lastOutcome, lastCall>>

\* main is left, by return or by exception; its frame and locals are gone,
\* the module-level list stays
MainReturn ==
    /\ pc \in Ended
    /\ pc' = "idle"
    /\ top_n' = 0
    /\ exclusions' = <<>>
    /\ exclusions_is_global' = FALSE
    /\ trending_topics' = <<>>
    /\ raised' = NoException
    /\ driver' = "none"
    /\ acquired' = 0
    /\ released' = 0
    /\ idx' = 0
    /\ lastOutcome' = "none"
    /\ files' = NoFiles
    /\ UNCHANGED <<EXCLUSION_PATTERNS, runs, response, result, lastCall>>

Next ==
    \/ \E n \in MainTopNs, f \in ExclusionFileArgs, c \in CustomExclusionArgs : MainStart(n, f, c)
    \/ \E resp \in Responses : Fetch(resp)
    \/ \E started \in BOOLEAN : StartBrowser(started)
    \/ \E outcome \in ProbeOutcomes : Probe(outcome)
    \/ Quit
    \/ SaveJson
    \/ ExportCsv
    \/ MainReturn

Spec == Init /\ [][Next]_vars

-----------------------------------------------------------------------------
(* The fetcher called on its own: get_top_wikipedia_arabic_topics(date, n, patterns) *)

\* the lists a caller passes: defaults, file-loaded, or empty, each possibly
\* extended by the command line's additions
FetchExclusionLists ==
    {ExtendExclusions(base, c) :
        base \in {DefaultPatterns, ParseExclusionLines(ExclusionFileLines), <<>>},
        c \in CustomExclusionArgs}

InitFetch ==
    /\ EXCLUSION_PATTERNS = DefaultPatterns
    /\ pc = "call"
    /\ runs = 0
    /\ top_n \in TopNs
    /\ \/ exclusions_is_global = TRUE /\ exclusions = <<>>     \* exclusion_patterns=None
       \/ exclusions_is_global = FALSE /\ exclusions \in FetchExclusionLists
    /\ response \in Responses
    /\ result = NoResult
    /\ trending_topics = <<>>
    /\ raised = NoException
    /\ driver = "none"
    /\ acquired = 0
    /\ released = 0
    /\ idx = 0
    /\ lastOutcome = "none"
    /\ files = NoFiles
    /\ lastCall = NoCall

\* the patterns the call filters with
FetchPatterns == EffectivePatterns(exclusions_is_global, exclusions, EXCLUSION_PATTERNS)

FetchCall ==
    /\ pc = "call"
    /\ result' = GetTopWikipediaArabicTopics(response, top_n, FetchPatterns)
    /\ pc' = "returned"
    /\ UNCHANGED <<EXCLUSION_PATTERNS, runs, top_n, exclusions, exclusions_is_global,
                   response, trending_topics, raised, driver, acquired, released,
                   idx, lastOutcome, files, lastCall>>

NextFetch == FetchCall

SpecFetch == InitFetch /\ [][NextFetch]_vars

-----------------------------------------------------------------------------
(* The emitters called on their own *)

SampleRecords ==
    { [rank |-> 1, article |-> <<"a", " ", "b">>, views |-> ViewsAt(1),
       aljazeera_coverage |-> CoverageYes],
      [rank |-> 2, article |-> <<"c", " ", "d">>, views |-> ViewsAt(2),
       aljazeera_coverage |-> CoverageNo] }

EmitData == UNION {[1..n -> SampleRecords] : n \in 0..MaxEmit}

\* a file left by an earlier run
OldFile == [exists |-> TRUE, format |-> "old", header |-> <<>>, rows |-> <<>>]

InitEmit ==
    /\ EXCLUSION_PATTERNS = DefaultPatterns
    /\ pc = "emit"
    /\ runs = 0
    /\ top_n = 0
    /\ exclusions = <<>>
    /\ exclusions_is_global = FALSE
    /\ response = NoResponse
    /\ result = NoResult
    /\ trending_topics = <<>>
    /\ raised = NoException
    /\ driver = "none"
    /\ acquired = 0
    /\ released = 0
    /\ idx = 0
    /\ lastOutcome = "none"
    /\ files \in [Filenames -> {NoFile, OldFile}]
    /\ lastCall = NoCall

CallSaveToJson(data, filename) ==
    /\ pc = "emit"
    /\ files' = SaveToJson(files, data, filename)
    /\ lastCall' = [fn |-> "save_to_json", data |-> data, filename |-> filename,
                    before |-> files]
    /\ UNCHANGED <<EXCLUSION_PATTERNS, pc, runs, top_n, exclusions, exclusions_is_global,
                   response, result, trending_topics, raised, driver, acquired,
                   released, idx, lastOutcome>>

CallExportToCsv(data, filename) ==
    /\ pc = "emit"
    /\ files' = ExportToCsv(files, data, filename)
    /\ lastCall' = [fn |-> "export_to_csv", data |-> data, filename |-> filename,
                    before |-> files]
    /\ UNCHANGED <<EXCLUSION_PATTERNS, pc, runs, top_n, exclusions, exclusions_is_global,
                   response, result, trending_topics, raised, driver, acquired,
                   released, idx, lastOutcome>>

NextEmit ==
    \/ \E data \in EmitData, filename \in Filenames : CallSaveToJson(data, filename)
    \/ \E data \in EmitData, filename \in Filenames : CallExportToCsv(data, filename)

SpecEmit == InitEmit /\ [][NextEmit]_vars

-----------------------------------------------------------------------------
(* Claims *)

IsSubstring(needle, haystack) ==
    \E s \in 1..(Len(haystack) + 1) :
        /\ s + Len(needle) - 1 <= Len(haystack)
        /\ \A k \in 1..Len(needle) : haystack[s + k - 1] = needle[k]

WellFormed(resp) == resp \in WellFormedResponses

\* C1: no record that main writes to an output file has an article title (as
\* written) that contains a pattern of the exclusion list of that run.
C1_WrittenTitlesFreeOfExclusions ==
    \A f \in Filenames :
        \A k \in 1..Len(files[f].rows) :
            \A p \in 1..Len(exclusions) :
                ~IsSubstring(exclusions[p], files[f].rows[k].article)

\* C2 as claimed, on a well-formed response and a count that is not negative:
\* the fetcher returns at most top_n records, and top_n is at most the number
\* of articles the API sent.
C2_CountAtMostRequestedAtMostFetched ==
    (pc = "returned" /\ WellFormed(response) /\ top_n >= 0) =>
        /\ Len(result.value) <= top_n
        /\ top_n <= Len(response.articles)

\* C2 amended: the fetcher returns at most as many records as the API sent
\* articles, and at most top_n of them whenever top_n is not negative.
C2_CountAtMostFetchedAndRequested ==
    (pc = "returned" /\ result.exc = NoException) =>
        /\ Len(result.value) <= Len(response.articles)
        /\ (top_n >= 0 => Len(result.value) <= top_n)

\* C2's case: three articles sent, two requested, two returned
C2_Witness ==
    /\ pc = "returned"
    /\ result.exc = NoException
    /\ Len(response.articles) = 3
    /\ top_n = 2
    /\ Len(result.value) = 2

\* C3: when a run of main has ended, the browser session was acquired at most
\* once and, if it was acquired, was released exactly once and is not open.
C3_SessionReleasedExactlyOnce ==
    pc \in Ended =>
        /\ acquired <= 1
        /\ driver # "open"
        /\ (acquired = 1 => released = 1 /\ driver = "closed")

\* C4: the fetcher (asked for a count that is not negative) never raises, and
\* on a network error or a response of unexpected shape it returns the empty
\* list.
C4_FetcherNeverRaises ==
    (pc = "returned" /\ top_n >= 0) =>
        /\ result.exc = NoException
        /\ (~WellFormed(response) => result.value = <<>>)

ValidCoverage(topic) ==
    /\ "aljazeera_coverage" \in DOMAIN topic
    /\ topic["aljazeera_coverage"] \in {CoverageYes, CoverageNo}

LoopCompleted == (pc = "probe" /\ idx > Len(trending_topics)) \/ pc \in {"save", "csv", "done"}

\* C5: once the probe loop has completed, every record of the list, and every
\* record written to a file, carries a coverage field holding the yes string
\* or the no string.
C5_CoverageValidAfterLoop ==
    /\ LoopCompleted => \A k \in 1..Len(trending_topics) : ValidCoverage(trending_topics[k])
    /\ \A f \in Filenames : \A k \in 1..Len(files[f].rows) : ValidCoverage(files[f].rows[k])

\* C5's case: a finished run whose two records got different verdicts, both written
C5_Witness ==
    /\ pc = "done"
    /\ Len(trending_topics) = 2
    /\ trending_topics[1]["aljazeera_coverage"] = CoverageYes
    /\ trending_topics[2]["aljazeera_coverage"] = CoverageNo
    /\ files[JsonFilename].rows = trending_topics
    /\ files[CsvFilename].rows = trending_topics

ProbeFailures == {"WebDriverException", "OtherException"}

\* C6: after a probe that failed with a network or browser error, the run has
\* not been aborted and that topic's verdict is the no string; and a run in
\* which a probe failed ends with every topic probed and both files written.
C6_ProbeFailureNotFatal ==
    lastOutcome \in ProbeFailures =>
        /\ pc # "raised"
        /\ trending_topics[idx - 1]["aljazeera_coverage"] = CoverageNo
        /\ (pc \in Ended =>
               /\ pc = "done"
               /\ \A k \in 1..Len(trending_topics) : ValidCoverage(trending_topics[k])
               /\ files[JsonFilename].exists /\ files[CsvFilename].exists)

\* C7: a run of main that ended after a fetch that returned at least one topic
\* has probed every topic and written both output files.
C7_OnlyEmptyFetchHalts ==
    (pc \in Ended /\ trending_topics # <<>>) =>
        /\ \A k \in 1..Len(trending_topics) : "aljazeera_coverage" \in DOMAIN trending_topics[k]
        /\ files[JsonFilename].exists
        /\ files[CsvFilename].exists

\* the ranks (positions) of the response's articles that no pattern excludes
KeptRanks(resp, patterns) ==
    {j \in 1..Len(resp.articles) :
        \A p \in 1..Len(patterns) : ~IsSubstring(patterns[p], resp.articles[j].article.chars)}

\* the k-th smallest element of a set of numbers
KthOf(S, k) == CHOOSE j \in S : Cardinality({x \in S : x <= j}) = k

SpacedOf(raw, out) ==
    /\ Len(out) = Len(raw)
    /\ \A c \in 1..Len(raw) : out[c] = (IF raw[c] = "_" THEN " " ELSE raw[c])

\* C8: for a well-formed response and top_n >= 0 the fetcher returns, in rank
\* order, exactly the first top_n articles that no pattern excludes (all of
\* them if fewer), each with its rank and views and with its title's
\* underscores turned into spaces.
C8_FirstNNonExcludedInOrder ==
    (pc = "returned" /\ WellFormed(response) /\ top_n >= 0) =>
        LET kept == KeptRanks(response, FetchPatterns)
            m == IF top_n < Cardinality(kept) THEN top_n ELSE Cardinality(kept)
        IN  /\ result.exc = NoException
            /\ Len(result.value) = m
            /\ \A k \in 1..m :
                  LET src == response.articles[KthOf(kept, k)]
                      out == result.value[k]
                  IN  /\ DOMAIN out = {"rank", "article", "views"}
                      /\ out.rank = src.rank
                      /\ out.views = src.views
                      /\ SpacedOf(src.article.chars, out.article)

\* C8's case: three articles of which one is excluded, two requested, the two
\* others returned
C8_Witness ==
    /\ pc = "returned"
    /\ WellFormed(response)
    /\ Len(response.articles) = 3
    /\ Cardinality(KeptRanks(response, FetchPatterns)) = 2
    /\ 1 \notin KeptRanks(response, FetchPatterns)
    /\ top_n = 2
    /\ Len(result.value) = 2
    /\ result.value[1].rank = 2
    /\ result.value[2].rank = 3

\* C9: an emitter called with an empty record list leaves every file as it was.
C9_EmittersNoOpOnEmpty ==
    (lastCall.fn # "none" /\ lastCall.data = <<>>) => files = lastCall.before

\* C10: the module-level default exclusion list always holds exactly the
\* original defaults, whatever main calls have been made.
C10_DefaultsUnchanged == EXCLUSION_PATTERNS = DefaultPatterns

====
